---- MODULE Spec2Model ----
(***************************************************************************)
(* A model of the granular engine of src/src/granular.cpp: the Granular    *)
(* module (sample buffer, live capture, grain pool, per-sample process     *)
(* callback), the Grain voice and the file loader of GranularWidget.       *)
(*                                                                         *)
(* Two threads act on the module.  The engine thread calls process once    *)
(* per sample; one call is one step of the model.  The UI thread runs      *)
(* onPathDrop, which blocks in the WAV decoder between raising isLoading   *)
(* and calling setBuffer, and sets the record control afterwards; process  *)
(* calls may fall between these steps.  setBuffer itself is one step.  The *)
(* UI thread also moves the record control when it is not inside           *)
(* onPathDrop.                                                             *)
(*                                                                         *)
(* Numbers.  Floating-point quantities are fixed-point integers:           *)
(*   positions   in units of 1/POS_ONE sample,                             *)
(*   knob values in units of 1/KNOB_ONE of the knob's normalized range,    *)
(*   life and envelope values in units of 1/LIFE_ONE,                      *)
(*   the spawn timer in units of one tick (args.sampleTime).               *)
(* Sample counts that the source writes as 44100, 100, 10 seconds and 128  *)
(* grains are scaled down (keeping their order) so that wrapping, the      *)
(* short-recording floor and pool exhaustion are reached.                  *)
(***************************************************************************)
EXTENDS Integers, Sequences, FiniteSets

VARIABLES
    \* ---- Granular (granular.cpp:244-261) ----
    audioBuffer,        \* std::vector<float>
    fileSampleRate,     \* unsigned int
    activeBufferLen,    \* size_t
    bufferIsRawVoltage, \* bool
    grains,             \* std::vector<Grain>
    grainSpawnTimer,    \* float, in ticks
    isLoading,          \* std::atomic<bool>
    isRecording,        \* std::atomic<bool>
    recHead,            \* size_t
    wasRecordingPrev,   \* bool
    bufferWrapped,      \* bool
    recTrigger,         \* dsp::SchmittTrigger: TRUE is its high state
    \* ---- the module's ports ----
    liveRecParam,       \* params[LIVE_REC_PARAM]: 0 or 1
    sineOutput,         \* outputs[SINE_OUTPUT]
    \* ---- GranularWidget::onPathDrop (UI thread) ----
    loaderPc,           \* "idle", "decoding" or "loaded"
    newBuffer,          \* the decoded file: [samples, rate]
    \* ---- history, written by the steps and read only by the properties ----
    last,               \* the step taken last
    tick,               \* what the last process call observed and did
    cap,                \* the capture run since the last record start, and
                    \* the load since
    forcedOff,          \* a file drop during capture has forced the control off
    probe               \* result of the last direct call of a Grain method

engineVars == <<audioBuffer, fileSampleRate, activeBufferLen, bufferIsRawVoltage,
                grains, grainSpawnTimer, isLoading, isRecording, recHead,
                wasRecordingPrev, bufferWrapped, recTrigger>>

vars == <<audioBuffer, fileSampleRate, activeBufferLen, bufferIsRawVoltage,
          grains, grainSpawnTimer, isLoading, isRecording, recHead,
          wasRecordingPrev, bufferWrapped, recTrigger, liveRecParam, sineOutput,
          loaderPc, newBuffer, last, tick, cap, forcedOff, probe>>

-----------------------------------------------------------------------------
(* Fixed-point units.                                                      *)

\* one sample of Grain::bufferPos
POS_ONE == 2
\* a knob at the top of its normalized range (1.f)
KNOB_ONE == 2
\* Grain::life == 1.f, and an envelope value of 1.f
LIFE_ONE == 4

(* Scaled program sizes.                                                   *)

\* static const int MAX_GRAINS = 128
MAX_GRAINS == 2
\* audioBuffer.size() < 44100: the capture buffer is (re)allocated
RESIZE_BELOW == 3
\* the seconds of audio the capture buffer holds: args.sampleRate * 10.0f
REC_SECONDS == 4
\* recHead > 100: the recording is long enough to keep its own length
SHORT_REC == 1
\* the floor 44100 of activeBufferLen after a short recording
FLOOR_LEN == 3
\* unsigned int fileSampleRate = 44100
DEFAULT_RATE == 1
\* the capture run is followed for this many capturing ticks
MaxCapture == 9

(* Inputs.                                                                 *)

\* args.sampleRate of the host
HostRates == {1}
\* inputs[_1VOCT_INPUT].getVoltage() while capturing
Inputs == {1}
\* the same, where only capture and playback run (SpecCapture)
CaptureInputs == {0, 1}
\* the arguments of a direct call of Grain::getSample (SpecGetSample)
MaxProbePos == 8
MaxProbeLen == 3
ProbeBuffers == { <<>>, <<1>>, <<1, 2>>, <<1, 2, 1>> }
\* the arguments of repeated calls of Grain::advance (SpecAdvance): the
\* number of calls, the speeds and the loop bounds, in 1/POS_ONE sample
MaxAdvance == 4
AdvanceSpeeds == {1, 2, 3, 5}
AdvanceLoopStarts == {-2, 0, 1, 4}
AdvanceLoopEnds == {-1, 1, 3, 4, 6}
\* what a read outside audioBuffer may return
GarbageValues == {0, 1}
\* decoded WAV files: the mono samples and the file's sample rate
Files == { [samples |-> <<1>>, rate |-> 2],
           [samples |-> <<1, 0, 1>>, rate |-> 1] }

\* the files that are loaded where only playback runs (SpecPlayback)
PlaybackFiles == { [samples |-> <<1, 2>>, rate |-> 1],
                   [samples |-> <<2, 1, 3>>, rate |-> 2] }

NoFile == [samples |-> <<>>, rate |-> 0]

Min(a, b) == IF a <= b THEN a ELSE b
Max(a, b) == IF a >= b THEN a ELSE b
Abs(a) == IF a >= 0 THEN a ELSE -a

Zeros(n) == [i \in 1..n |-> 0]

-----------------------------------------------------------------------------
(* struct Grain (granular.cpp:88-146).  A grain is the record              *)
(* [bufferPos, life, lifeIncrement, playbackSpeedRatio, finalEnvShape].    *)

\* (int)bufferPos: conversion of a double to int truncates toward zero
ToInt(pos) ==
    IF pos >= 0 THEN pos \div POS_ONE ELSE -((-pos) \div POS_ONE)

\* 2^k modulo n, for the conversion of a negative int to the 64-bit size_t
RECURSIVE Pow2Mod(_, _)
Pow2Mod(k, n) ==
    IF k = 0 THEN 1 % n ELSE (2 * Pow2Mod(k - 1, n)) % n

\* (index1 + 1) % effectiveSize: the int is converted to size_t (modulo 2^64)
\* before the remainder is taken
SizeTRemainder(i, n) ==
    IF i >= 0 THEN i % n ELSE (Pow2Mod(64, n) + (i % n)) % n

\* an index that is clamped from below only
GetSampleIndex1NoUpperClamp(bufferPos, activeLen) ==
    IF ToInt(bufferPos) < 0 THEN 0 ELSE ToInt(bufferPos)

\* the index of the first sample getSample reads (lines 100, 104, 105)
GetSampleIndex1(bufferPos, activeLen) ==
    LET index1 == ToInt(bufferPos)
    IN  IF index1 < 0 THEN 0
        ELSE IF index1 >= activeLen THEN activeLen - 1
        ELSE index1

\* the index of the second sample getSample reads (lines 101, 106, 107)
GetSampleIndex2(bufferPos, activeLen) ==
    LET index2 == SizeTRemainder(ToInt(bufferPos) + 1, activeLen)
    IN  IF index2 < 0 THEN 0
        ELSE IF index2 >= activeLen THEN activeLen - 1
        ELSE index2

\* buffer[index]; an index outside the vector reads whatever lies there
ReadSample(buffer, index, garbage) ==
    IF index + 1 \in DOMAIN buffer THEN buffer[index + 1] ELSE garbage

\* Grain::getSample, in units of 1/POS_ONE
getSample(g, buffer, activeLen, garbage) ==
    IF buffer = <<>> \/ activeLen = 0 THEN 0
    ELSE LET frac == g.bufferPos - ToInt(g.bufferPos) * POS_ONE
             s1 == ReadSample(buffer, GetSampleIndex1(g.bufferPos, activeLen), garbage)
             s2 == ReadSample(buffer, GetSampleIndex2(g.bufferPos, activeLen), garbage)
         IN  (POS_ONE - frac) * s1 + frac * s2

\* 0.5 * (1 - cos(2 pi life)) at the quarter points of the life, in 1/LIFE_ONE
ShapeSine(life) ==
    LET quarter == (4 * life) \div LIFE_ONE
    IN  CASE quarter % 4 = 0 -> 0
          [] quarter % 4 = 2 -> LIFE_ONE
          [] OTHER -> LIFE_ONE \div 2

\* Grain::getEnvelope, in units of 1/LIFE_ONE; envShape in 1/KNOB_ONE
getEnvelope(g, envShape) ==
    LET shape_square == LIFE_ONE
        shape_triangle == LIFE_ONE - Abs(g.life - LIFE_ONE \div 2) * 2
        shape_sine == ShapeSine(g.life)
    IN  IF 2 * envShape <= KNOB_ONE
        THEN LET t == envShape * 2
             IN  ((KNOB_ONE - t) * shape_square + t * shape_triangle) \div KNOB_ONE
        ELSE LET t == (2 * envShape - KNOB_ONE)
             IN  ((KNOB_ONE - t) * shape_triangle + t * shape_sine) \div KNOB_ONE

\* an advance that carries the whole overflow past loopEnd back to loopStart
advanceNoRemainder(g, loopStart, loopEnd) ==
    LET pos == g.bufferPos + g.playbackSpeedRatio
        wrapped ==
            IF pos >= loopEnd THEN loopStart + (pos - loopEnd)
            ELSE IF pos < loopStart THEN loopStart
            ELSE pos
    IN  [g EXCEPT !.bufferPos = wrapped, !.life = g.life + g.lifeIncrement]

\* Grain::advance
advance(g, loopStart, loopEnd) ==
    LET pos == g.bufferPos + g.playbackSpeedRatio
        loopWidth == loopEnd - loopStart
        wrapped ==
            IF pos >= loopEnd
            THEN IF loopWidth > 0
                 THEN loopStart + ((pos - loopEnd) % loopWidth)
                 ELSE loopStart
            ELSE IF pos < loopStart THEN loopStart
            ELSE pos
    IN  [g EXCEPT !.bufferPos = wrapped, !.life = g.life + g.lifeIncrement]

\* a grain that is still alive when its life has just reached 1.f
isAliveAtOne(g) == g.life <= LIFE_ONE

\* Grain::isAlive
isAlive(g) == g.life < LIFE_ONE

-----------------------------------------------------------------------------
(* struct Granular (granular.cpp:149-530).  The steps of process work on   *)
(* a record of the module's fields, so that the state between two steps    *)
(* of one call can be named.                                               *)

Engine ==
    [audioBuffer |-> audioBuffer, fileSampleRate |-> fileSampleRate,
     activeBufferLen |-> activeBufferLen, bufferIsRawVoltage |-> bufferIsRawVoltage,
     grains |-> grains, grainSpawnTimer |-> grainSpawnTimer,
     isLoading |-> isLoading, isRecording |-> isRecording, recHead |-> recHead,
     wasRecordingPrev |-> wasRecordingPrev, bufferWrapped |-> bufferWrapped,
     recTrigger |-> recTrigger, sineOutput |-> sineOutput]

\* the output voltage 5 * tanh(gain * sum / sqrt(div)), kept as its three
\* arguments; sum is in units of 1/(POS_ONE * LIFE_ONE).  It is 0 exactly
\* when sum is 0.
Volts(sum, div, gain) ==
    IF sum = 0 THEN [sum |-> 0, div |-> 1, gain |-> 1]
    ELSE [sum |-> sum, div |-> div, gain |-> gain]

\* outputs[SINE_OUTPUT].setVoltage(0.f)
ZeroVolts == Volts(0, 1, 1)

\* bool recActive = params[LIVE_REC_PARAM].getValue() > 0.5f
RecActive(param) == 2 * param > 1

\* dsp::SchmittTrigger::process(recActive ? 10.f : 0.f): the trigger goes
\* low on an input <= 0 and fires, going high, on an input >= 1 while low
SchmittState(state, in) ==
    IF state THEN ~(in <= 0) ELSE in >= 1

SchmittFires(state, in) == ~state /\ in >= 1

\* the size of the capture buffer: args.sampleRate * 10.0f
RecordBufferSize(sampleRate) == sampleRate * REC_SECONDS

\* audioBuffer.resize(n): the front is kept, zeros are appended
Resize(buffer, n) ==
    [i \in 1..n |-> IF i <= Len(buffer) THEN buffer[i] ELSE 0]

\* a record start that does not zero the buffer
RecordStartNoFill(e, sampleRate) ==
    LET undersized == Len(e.audioBuffer) < RESIZE_BELOW
    IN  [e EXCEPT !.audioBuffer = IF undersized
                                  THEN Resize(@, RecordBufferSize(sampleRate)) ELSE @,
                  !.fileSampleRate = IF undersized THEN sampleRate ELSE @,
                  !.bufferIsRawVoltage = TRUE,
                  !.recHead = 0,
                  !.bufferWrapped = FALSE,
                  !.isLoading = FALSE]

\* TRIGGER RECORD START: the body of the if at lines 315-328
RecordStart(e, sampleRate) ==
    LET undersized == Len(e.audioBuffer) < RESIZE_BELOW
        resized == IF undersized
                   THEN Resize(e.audioBuffer, RecordBufferSize(sampleRate))
                   ELSE e.audioBuffer
    IN  [e EXCEPT !.audioBuffer = Zeros(Len(resized)),
                  !.fileSampleRate = IF undersized THEN sampleRate ELSE @,
                  !.bufferIsRawVoltage = TRUE,
                  !.recHead = 0,
                  !.bufferWrapped = FALSE,
                  !.isLoading = FALSE]

\* a record stop without the floor for short recordings
StoppedLenNoFloor(e) ==
    IF e.bufferWrapped THEN Len(e.audioBuffer) ELSE e.recHead

\* the length a finished recording leaves in activeBufferLen (lines 332-336)
StoppedLen(e) ==
    IF e.bufferWrapped THEN Len(e.audioBuffer)
    ELSE IF e.recHead > SHORT_REC THEN e.recHead ELSE FLOOR_LEN

\* HANDLE RECORD STOP: lines 331-339
RecordStop(e, recActive) ==
    [e EXCEPT !.activeBufferLen =
                  IF e.wasRecordingPrev /\ ~recActive THEN StoppedLen(e) ELSE @,
              !.wasRecordingPrev = recActive,
              !.isRecording = recActive]

\* a capture that stops at the end of the buffer instead of wrapping
CaptureStopsAtEnd(e, in) ==
    IF e.audioBuffer = <<>>
    THEN [e EXCEPT !.sineOutput = ZeroVolts]
    ELSE [e EXCEPT !.audioBuffer = IF e.recHead < Len(e.audioBuffer)
                                   THEN [@ EXCEPT ![e.recHead + 1] = in] ELSE @,
                   !.recHead = Min(e.recHead + 1, Len(e.audioBuffer)),
                   !.activeBufferLen = Len(e.audioBuffer),
                   !.sineOutput = ZeroVolts]

\* a capture that also runs the spawn timer and drops the playing grains
CaptureStopsGrains(e, in) ==
    IF e.audioBuffer = <<>>
    THEN [e EXCEPT !.sineOutput = ZeroVolts]
    ELSE LET written == IF e.recHead < Len(e.audioBuffer)
                        THEN [e.audioBuffer EXCEPT ![e.recHead + 1] = in]
                        ELSE e.audioBuffer
             head == e.recHead + 1
             wraps == head >= Len(e.audioBuffer)
         IN  [e EXCEPT !.audioBuffer = written,
                       !.recHead = IF wraps THEN 0 ELSE head,
                       !.bufferWrapped = IF wraps THEN TRUE ELSE @,
                       !.activeBufferLen = Len(e.audioBuffer),
                       !.grains = <<>>,
                       !.grainSpawnTimer = Max(@ - 1, 0),
                       !.sineOutput = ZeroVolts]

\* the capture branch: lines 342-355
Capture(e, in) ==
    IF e.audioBuffer = <<>>
    THEN [e EXCEPT !.sineOutput = ZeroVolts]
    ELSE LET written == IF e.recHead < Len(e.audioBuffer)
                        THEN [e.audioBuffer EXCEPT ![e.recHead + 1] = in]
                        ELSE e.audioBuffer
             head == e.recHead + 1
             wraps == head >= Len(e.audioBuffer)
         IN  [e EXCEPT !.audioBuffer = written,
                       !.recHead = IF wraps THEN 0 ELSE head,
                       !.bufferWrapped = IF wraps THEN TRUE ELSE @,
                       !.activeBufferLen = Len(e.audioBuffer),
                       !.sineOutput = ZeroVolts]

\* a silence branch that does not look at isLoading
SilentIgnoresLoading(e) ==
    e.audioBuffer = <<>> \/ e.activeBufferLen = 0

\* the condition of the silence branch: line 358
Silent(e) ==
    e.isLoading \/ e.audioBuffer = <<>> \/ e.activeBufferLen = 0

\* the silence branch: lines 359-360
Silence(e) == [e EXCEPT !.sineOutput = ZeroVolts]

-----------------------------------------------------------------------------
(* STANDARD PLAYBACK: lines 365-517.  The knob record k holds the values   *)
(* the call reads from its knobs, CV inputs and random draws:              *)
(*   startVal, endVal   START_PARAM and END_PARAM, in 1/KNOB_ONE           *)
(*   period             1.f / density_hz_final, in ticks                   *)
(*   position           position_final_norm before the loop clamp          *)
(*   speed              std::pow(2.f, totalPitchVolts), in 1/POS_ONE       *)
(*   grainSize          grainSize_sec_final, in seconds                    *)
(*   envShape           the randomized envelope shape, in 1/KNOB_ONE       *)
(*   compression        COMPRESSION_PARAM, 0 or 1                          *)
(* and garbage is what a read past the end of audioBuffer returns.         *)

\* norm * (double)(activeBufferLen - 1), in 1/POS_ONE sample
NormToPos(norm, len) == (norm * (len - 1) * POS_ONE) \div KNOB_ONE

\* the loop region: lines 365-375
LoopBounds(startVal, endVal, len) ==
    LET loopStartNorm == Min(startVal, endVal)
        loopEndNorm == Max(startVal, endVal)
        endSamp0 == NormToPos(loopEndNorm, len)
        startSamp0 == NormToPos(loopStartNorm, len)
        endSamp == IF endSamp0 >= len * POS_ONE THEN (len - 1) * POS_ONE ELSE endSamp0
        startSamp1 == IF startSamp0 < 0 THEN 0 ELSE startSamp0
        startSamp == IF startSamp1 >= endSamp THEN endSamp - POS_ONE ELSE startSamp1
    IN  [loopStartNorm |-> loopStartNorm, loopEndNorm |-> loopEndNorm,
         loopStartSamp |-> startSamp, loopEndSamp |-> endSamp]

\* a spawn guard that is off by one
HasCapacityOffByOne(pool) == Len(pool) <= MAX_GRAINS

\* the spawn guard: line 467
HasCapacity(pool) == Len(pool) < MAX_GRAINS

\* the spacing of the float values at a buffer position, in 1/POS_ONE
\* sample: a float holds fewer digits than the double of the loop bounds
FLOAT_STEP == 2

\* the float nearest to a non-negative product (ties to the even neighbour)
ToFloat(x) ==
    LET q == x \div FLOAT_STEP
        r == x % FLOAT_STEP
    IN  IF 2 * r < FLOAT_STEP THEN q * FLOAT_STEP
        ELSE IF 2 * r > FLOAT_STEP THEN (q + 1) * FLOAT_STEP
        ELSE IF q % 2 = 0 THEN q * FLOAT_STEP ELSE (q + 1) * FLOAT_STEP

\* float grainSizeInSamples of lines 486-487
GrainSizeInSamples(e, k) == Max(k.grainSize * e.fileSampleRate, 1)

\* the grain built at lines 468-488; line 473 multiplies two floats (the
\* size_t is converted to float), where lines 370-371 multiply doubles
NewGrain(e, k, loop) ==
    LET clamped == Min(Max(k.position, loop.loopStartNorm), loop.loopEndNorm)
        grainSizeInSamples == GrainSizeInSamples(e, k)
    IN  [bufferPos |-> ToFloat(NormToPos(clamped, e.activeBufferLen)),
         life |-> 0,
         lifeIncrement |-> LIFE_ONE \div grainSizeInSamples,
         playbackSpeedRatio |-> k.speed,
         finalEnvShape |-> k.envShape]

\* a sum in which every envelope is evaluated with the shape 0
RECURSIVE GrainSumOneShape(_, _, _, _)
GrainSumOneShape(pool, buffer, activeLen, garbage) ==
    IF pool = <<>> THEN 0
    ELSE getSample(Head(pool), buffer, activeLen, garbage)
             * getEnvelope(Head(pool), 0)
         + GrainSumOneShape(Tail(pool), buffer, activeLen, garbage)

\* out after the grain loop of lines 495-501: the sum of sample * envelope
RECURSIVE GrainSum(_, _, _, _)
GrainSum(pool, buffer, activeLen, garbage) ==
    IF pool = <<>> THEN 0
    ELSE getSample(Head(pool), buffer, activeLen, garbage)
             * getEnvelope(Head(pool), Head(pool).finalEnvShape)
         + GrainSum(Tail(pool), buffer, activeLen, garbage)

\* the pool after every grain has advanced: line 500
Advanced(pool, loop) ==
    [i \in 1..Len(pool) |-> advance(pool[i], loop.loopStartSamp, loop.loopEndSamp)]

\* the pool after the dead grains are erased: lines 503-507
Reaped(pool) == SelectSeq(pool, isAlive)

\* the mixdown and the output stage: lines 509-517
Mixdown(sum, pool, compression) ==
    Volts(sum, IF pool # <<>> THEN Len(pool) ELSE 1, 1 + 3 * compression)

\* a timer reset that carries the overshoot below zero into the next period
TimerAfterKeepsOvershoot(timer, period) ==
    IF timer <= 0 THEN period + timer ELSE timer

\* the spawn timer after lines 463-465, from the timer decreased at line 462
TimerAfter(timer, period) ==
    IF timer <= 0 THEN period ELSE timer

\* a spawning step that resets the timer only when a grain is created
SpawningResetsOnSpawnOnly(e, k, loop) ==
    LET timer == e.grainSpawnTimer - 1
        spawns == timer <= 0 /\ HasCapacity(e.grains)
    IN  [e EXCEPT !.grainSpawnTimer = IF spawns THEN k.period ELSE timer,
                  !.grains = IF spawns THEN Append(@, NewGrain(e, k, loop)) ELSE @]

\* SPAWNING: lines 462-492
Spawning(e, k, loop) ==
    LET timer == e.grainSpawnTimer - 1
    IN  [e EXCEPT !.grainSpawnTimer = TimerAfter(timer, k.period),
                  !.grains = IF timer <= 0 /\ HasCapacity(@)
                             THEN Append(@, NewGrain(e, k, loop))
                             ELSE @]

\* SPAWNING, the grain loop and the output: lines 462-517
Playback(e, k, garbage) ==
    LET loop == LoopBounds(k.startVal, k.endVal, e.activeBufferLen)
        spawned == Spawning(e, k, loop)
        sum == GrainSum(spawned.grains, e.audioBuffer, e.activeBufferLen, garbage)
        pool == Reaped(Advanced(spawned.grains, loop))
    IN  [spawned EXCEPT !.grains = pool,
                        !.sineOutput = Mixdown(sum, pool, k.compression)]

-----------------------------------------------------------------------------
(* The steps.                                                              *)

\* the knob values the engine is driven with
Knobs ==
    [startVal : {0}, endVal : {KNOB_ONE}, period : {1, 2},
     position : {0, KNOB_ONE}, speed : {POS_ONE}, grainSize : {1, 2},
     envShape : {0}, compression : {0}]

\* the knob values of a call that does not reach the playback branch
KnobsAtRest ==
    [startVal |-> 0, endVal |-> KNOB_ONE, period |-> 1, position |-> 0,
     speed |-> POS_ONE, grainSize |-> 2, envShape |-> 0, compression |-> 0]

NoSnapshot == [audioBuffer |-> <<>>, bufferIsRawVoltage |-> FALSE,
               recHead |-> 0, bufferWrapped |-> FALSE]

NoTick ==
    [branch |-> "none", edge |-> FALSE, stop |-> FALSE, sampleRate |-> 0,
     preSize |-> 0, started |-> NoSnapshot,
     sawRecording |-> FALSE, sawLoading |-> FALSE, sawEmpty |-> FALSE,
     sawLenZero |-> FALSE, expired |-> FALSE, spawned |-> FALSE,
     period |-> 0, loopStartSamp |-> 0, loopEndSamp |-> 0, contributors |-> 0,
     skipped |-> FALSE, freshLife |-> 0, overshoot |-> 0,
     bornPos |-> 0, bornLife |-> 0,
     trackedAlive |-> FALSE, trackedSize |-> 0, trackedAge |-> 0]

NoCapture == [valid |-> FALSE, count |-> 0, inputs |-> <<>>,
              loaded |-> FALSE, loadedLen |-> 0]

\* a file of n samples has been loaded and no record start has followed
Loaded(n) == [NoCapture EXCEPT !.loaded = TRUE, !.loadedLen = n]

\* the module's fields take the values of the record e
Commit(e) ==
    /\ audioBuffer' = e.audioBuffer
    /\ fileSampleRate' = e.fileSampleRate
    /\ activeBufferLen' = e.activeBufferLen
    /\ bufferIsRawVoltage' = e.bufferIsRawVoltage
    /\ grains' = e.grains
    /\ grainSpawnTimer' = e.grainSpawnTimer
    /\ isLoading' = e.isLoading
    /\ isRecording' = e.isRecording
    /\ recHead' = e.recHead
    /\ wasRecordingPrev' = e.wasRecordingPrev
    /\ bufferWrapped' = e.bufferWrapped
    /\ recTrigger' = e.recTrigger
    /\ sineOutput' = e.sineOutput

\* the capture run after a capturing tick that wrote the input in
Captured(c, edge, size, in) ==
    LET from == IF edge THEN [NoCapture EXCEPT !.valid = TRUE] ELSE c
        load == [NoCapture EXCEPT !.loaded = from.loaded, !.loadedLen = from.loadedLen]
    IN  IF ~from.valid \/ size = 0 \/ from.count >= MaxCapture THEN load
        ELSE [load EXCEPT !.valid = TRUE, !.count = from.count + 1,
                          !.inputs = IF from.count + 1 < size
                                     THEN Append(from.inputs, in) ELSE <<>>]

\* Granular::process, one call (lines 308-518), with the host's sample rate,
\* the voltage at the audio input and the knob values it reads
ProcessWith(sampleRate, in, k, garbage) ==
    LET e0 == Engine
        recActive == RecActive(liveRecParam)
        gate == IF recActive THEN 10 ELSE 0
        edge == SchmittFires(e0.recTrigger, gate)
        e1 == [e0 EXCEPT !.recTrigger = SchmittState(e0.recTrigger, gate)]
    IN
    \* each stage of the call is computed once and named
    \E e2 \in {IF edge THEN RecordStart(e1, sampleRate) ELSE e1} :
    \E e3 \in {RecordStop(e2, recActive)} :
    \E branch \in {IF e3.isRecording THEN "capture"
                   ELSE IF Silent(e3) THEN "silence" ELSE "playback"} :
    \E e4 \in {CASE branch = "capture" -> Capture(e3, in)
                  [] branch = "silence" -> Silence(e3)
                  [] OTHER -> Playback(e3, k, garbage)} :
    \E loop \in {LoopBounds(k.startVal, k.endVal, e3.activeBufferLen)} :
    \E pool \in {Spawning(e3, k, loop).grains} :
    LET playing == branch = "playback"
        expired == playing /\ e3.grainSpawnTimer - 1 <= 0
        spawnedNow == playing /\ Len(pool) > Len(e3.grains)
        \* the grain spawned last is followed over the process calls while
        \* it is in the pool: it is the last grain of the pool
        follows == spawnedNow \/ (playing /\ tick.trackedAlive)
    IN
    \E trackedAlive \in {IF follows
                          THEN Reaped(Advanced(<<pool[Len(pool)]>>, loop)) # <<>>
                          ELSE tick.trackedAlive} :
        /\ Commit(e4)
        /\ tick' = [branch |-> branch, edge |-> edge,
                    stop |-> e0.wasRecordingPrev /\ ~recActive,
                    sampleRate |-> sampleRate,
                    preSize |-> Len(e0.audioBuffer),
                    started |-> IF edge
                                THEN [audioBuffer |-> e2.audioBuffer,
                                      bufferIsRawVoltage |-> e2.bufferIsRawVoltage,
                                      recHead |-> e2.recHead,
                                      bufferWrapped |-> e2.bufferWrapped]
                                ELSE NoSnapshot,
                    sawRecording |-> e3.isRecording,
                    sawLoading |-> e3.isLoading,
                    sawEmpty |-> e3.audioBuffer = <<>>,
                    sawLenZero |-> e3.activeBufferLen = 0,
                    expired |-> expired,
                    spawned |-> playing /\ Len(pool) > Len(e3.grains),
                    period |-> IF expired THEN k.period ELSE 0,
                    loopStartSamp |-> IF playing THEN loop.loopStartSamp ELSE 0,
                    loopEndSamp |-> IF playing THEN loop.loopEndSamp ELSE 0,
                    contributors |-> IF playing THEN Len(pool) ELSE 0,
                    \* a spawn was skipped and none has happened in the
                    \* process calls since
                    skipped |-> IF expired /\ Len(pool) = Len(e3.grains) THEN TRUE
                                ELSE IF playing /\ Len(pool) > Len(e3.grains) THEN FALSE
                                ELSE tick.skipped,
                    \* the life of the grain spawned by this call, after its
                    \* first advance
                    freshLife |-> IF playing /\ Len(pool) > Len(e3.grains)
                                  THEN Advanced(pool, loop)[Len(pool)].life
                                  ELSE 0,
                    \* how far below zero the decreased timer was
                    overshoot |-> IF expired THEN 1 - e3.grainSpawnTimer ELSE 0,
                    \* bufferPos and life of the grain spawned by this call,
                    \* as pushed onto the pool
                    bornPos |-> IF playing /\ Len(pool) > Len(e3.grains)
                                THEN pool[Len(pool)].bufferPos ELSE 0,
                    bornLife |-> IF playing /\ Len(pool) > Len(e3.grains)
                                 THEN pool[Len(pool)].life ELSE 0,
                    \* the grain spawned last: whether it is in the pool,
                    \* its grainSizeInSamples and the playback ticks it has
                    \* been through
                    trackedAlive |-> trackedAlive,
                    trackedSize |-> IF ~trackedAlive THEN 0
                                    ELSE IF spawnedNow THEN GrainSizeInSamples(e3, k)
                                    ELSE tick.trackedSize,
                    trackedAge |-> IF ~trackedAlive THEN 0
                                   ELSE IF spawnedNow THEN 1
                                   ELSE IF playing THEN tick.trackedAge + 1
                                   ELSE tick.trackedAge]
        /\ cap' = IF branch = "capture"
                  THEN Captured(cap, edge, Len(e3.audioBuffer), in)
                  ELSE cap
        /\ last' = "process"
        /\ UNCHANGED <<liveRecParam, loaderPc, newBuffer, forcedOff, probe>>

\* the branch a call of process takes from the present state
BranchNow ==
    IF RecActive(liveRecParam) THEN "capture"
    ELSE IF Silent(RecordStop(Engine, FALSE)) THEN "silence" ELSE "playback"

\* the engine thread calls process; an input the call does not read is
\* not varied
process ==
    \E sampleRate \in HostRates :
    \E in \in (IF BranchNow = "capture" THEN Inputs ELSE {0}) :
    \E k \in (IF BranchNow = "playback" THEN Knobs ELSE {KnobsAtRest}) :
    \E garbage \in (IF BranchNow = "playback" /\ RecordStop(Engine, FALSE).activeBufferLen > Len(audioBuffer)
                    THEN GarbageValues ELSE {0}) :
        ProcessWith(sampleRate, in, k, garbage)

\* the user moves the record control; the UI thread is not in onPathDrop
SetLiveRec ==
    /\ loaderPc = "idle"
    /\ liveRecParam' = 1 - liveRecParam
    /\ forcedOff' = "no"
    /\ last' = "setLiveRec"
    /\ tick' = NoTick
    /\ UNCHANGED <<engineVars, sineOutput, loaderPc, newBuffer, cap, probe>>

\* onPathDrop, lines 960-976: a .wav file is dropped, isLoading is raised
\* and the decoder starts on the file
DropBegin ==
    /\ loaderPc = "idle"
    /\ \E f \in Files : newBuffer' = f
    /\ isLoading' = TRUE
    /\ loaderPc' = "decoding"
    /\ forcedOff' = IF isRecording THEN "pending" ELSE "no"
    /\ last' = "dropBegin"
    /\ UNCHANGED <<audioBuffer, fileSampleRate, activeBufferLen, bufferIsRawVoltage,
                   grains, grainSpawnTimer, isRecording, recHead, wasRecordingPrev,
                   bufferWrapped, recTrigger, liveRecParam, sineOutput, cap, probe>>
    /\ tick' = NoTick

\* onPathDrop, lines 978-981: the decoder fails
DropFail ==
    /\ loaderPc = "decoding"
    /\ isLoading' = FALSE
    /\ loaderPc' = "idle"
    /\ newBuffer' = NoFile
    /\ forcedOff' = "no"
    /\ last' = "dropFail"
    /\ UNCHANGED <<audioBuffer, fileSampleRate, activeBufferLen, bufferIsRawVoltage,
                   grains, grainSpawnTimer, isRecording, recHead, wasRecordingPrev,
                   bufferWrapped, recTrigger, liveRecParam, sineOutput, cap, probe>>
    /\ tick' = NoTick

\* a setBuffer that leaves the grain pool alone
setBufferKeepsGrains ==
    /\ loaderPc = "decoding"
    /\ audioBuffer' = newBuffer.samples
    /\ activeBufferLen' = Len(newBuffer.samples)
    /\ fileSampleRate' = newBuffer.rate
    /\ bufferIsRawVoltage' = FALSE
    /\ isLoading' = FALSE
    /\ isRecording' = FALSE
    /\ loaderPc' = "loaded"
    /\ cap' = Loaded(Len(newBuffer.samples))
    /\ last' = "setBuffer"
    /\ tick' = NoTick
    /\ UNCHANGED <<grains, grainSpawnTimer, recHead, wasRecordingPrev, bufferWrapped,
                   recTrigger, liveRecParam, sineOutput, newBuffer, forcedOff,
                   probe>>

\* Granular::setBuffer (lines 521-529), called at line 995
setBuffer ==
    /\ loaderPc = "decoding"
    /\ audioBuffer' = newBuffer.samples
    /\ activeBufferLen' = Len(newBuffer.samples)
    /\ fileSampleRate' = newBuffer.rate
    /\ grains' = <<>>
    /\ bufferIsRawVoltage' = FALSE
    /\ isLoading' = FALSE
    /\ isRecording' = FALSE
    /\ loaderPc' = "loaded"
    /\ cap' = Loaded(Len(newBuffer.samples))
    /\ last' = "setBuffer"
    /\ UNCHANGED <<grainSpawnTimer, recHead, wasRecordingPrev, bufferWrapped,
                   recTrigger, liveRecParam, sineOutput, newBuffer, forcedOff,
                   probe>>
    /\ tick' = NoTick

\* an onPathDrop that returns without touching the record control
DropEndKeepsControl ==
    /\ loaderPc = "loaded"
    /\ loaderPc' = "idle"
    /\ newBuffer' = NoFile
    /\ forcedOff' = IF forcedOff = "pending" THEN "yes" ELSE "no"
    /\ last' = "dropEnd"
    /\ tick' = NoTick
    /\ UNCHANGED <<engineVars, liveRecParam, sineOutput, cap, probe>>

\* onPathDrop, line 997: the record control is set to 0 and the handler returns
DropEnd ==
    /\ loaderPc = "loaded"
    /\ liveRecParam' = 0
    /\ loaderPc' = "idle"
    /\ newBuffer' = NoFile
    /\ forcedOff' = IF forcedOff = "pending" THEN "yes" ELSE "no"
    /\ last' = "dropEnd"
    /\ tick' = NoTick
    /\ UNCHANGED <<engineVars, sineOutput, cap, probe>>

NoProbe == [called |-> FALSE, index1 |-> 0, index2 |-> 0, reads |-> FALSE, value |-> 0]

\* the module after its constructor (lines 244-261, 269-306); the record
\* control has its default 0 and the trigger has seen it there
Init ==
    /\ audioBuffer = <<>>
    /\ fileSampleRate = DEFAULT_RATE
    /\ activeBufferLen = 0
    /\ bufferIsRawVoltage = FALSE
    /\ grains = <<>>
    /\ grainSpawnTimer = 0
    /\ isLoading = FALSE
    /\ isRecording = FALSE
    /\ recHead = 0
    /\ wasRecordingPrev = FALSE
    /\ bufferWrapped = FALSE
    /\ recTrigger = FALSE
    /\ liveRecParam = 0
    /\ sineOutput = ZeroVolts
    /\ loaderPc = "idle"
    /\ newBuffer = NoFile
    /\ last = "init"
    /\ tick = NoTick
    /\ cap = NoCapture
    /\ forcedOff = "no"
    /\ probe = NoProbe

Next ==
    \/ process
    \/ SetLiveRec
    \/ DropBegin
    \/ DropFail
    \/ setBuffer
    \/ DropEnd

Spec == Init /\ [][Next]_vars

-----------------------------------------------------------------------------
(* SpecCapture: the engine thread and the record control alone, with a     *)
(* wider set of input voltages.                                            *)

processCapture ==
    \E sampleRate \in HostRates :
    \E in \in (IF BranchNow = "capture" THEN CaptureInputs ELSE {0}) :
    \E k \in (IF BranchNow = "playback" THEN Knobs ELSE {KnobsAtRest}) :
        ProcessWith(sampleRate, in, k, 0)

NextCapture ==
    \/ processCapture
    \/ SetLiveRec

SpecCapture == Init /\ [][NextCapture]_vars

-----------------------------------------------------------------------------
(* SpecGetSample: Grain::getSample called on one grain, for every position *)
(* in -MaxProbePos..MaxProbePos, every buffer of ProbeBuffers and every    *)
(* active length up to MaxProbeLen.                                        *)

ProbeGrain(pos) ==
    [bufferPos |-> pos, life |-> 0, lifeIncrement |-> 1,
     playbackSpeedRatio |-> POS_ONE, finalEnvShape |-> 0]

InitGetSample ==
    /\ audioBuffer \in ProbeBuffers
    /\ activeBufferLen \in 0..MaxProbeLen
    /\ \E pos \in (-MaxProbePos)..MaxProbePos : grains = <<ProbeGrain(pos)>>
    /\ fileSampleRate = DEFAULT_RATE
    /\ bufferIsRawVoltage = FALSE
    /\ grainSpawnTimer = 0
    /\ isLoading = FALSE
    /\ isRecording = FALSE
    /\ recHead = 0
    /\ wasRecordingPrev = FALSE
    /\ bufferWrapped = FALSE
    /\ recTrigger = FALSE
    /\ liveRecParam = 0
    /\ sineOutput = ZeroVolts
    /\ loaderPc = "idle"
    /\ newBuffer = NoFile
    /\ last = "init"
    /\ tick = NoTick
    /\ cap = NoCapture
    /\ forcedOff = "no"
    /\ probe = NoProbe

\* g.getSample(audioBuffer, activeBufferLen) as at line 497
CallGetSample ==
    /\ ~probe.called
    /\ \E garbage \in GarbageValues :
         LET g == grains[1]
             reads == ~(audioBuffer = <<>> \/ activeBufferLen = 0)
         IN  probe' = [called |-> TRUE,
                       index1 |-> IF reads THEN GetSampleIndex1(g.bufferPos, activeBufferLen) ELSE 0,
                       index2 |-> IF reads THEN GetSampleIndex2(g.bufferPos, activeBufferLen) ELSE 0,
                       reads |-> reads,
                       value |-> getSample(g, audioBuffer, activeBufferLen, garbage)]
    /\ UNCHANGED <<engineVars, liveRecParam, sineOutput, loaderPc, newBuffer,
                   last, tick, cap, forcedOff>>

NextGetSample == CallGetSample

SpecGetSample == InitGetSample /\ [][NextGetSample]_vars

-----------------------------------------------------------------------------
(* The density controls: getClampedRandomizedValue (lines 263-267) and the *)
(* spawn period of sync mode (lines 379-406).  A base value, a randomise   *)
(* knob and a draw of rack::random::uniform() are in units of 1/RAND_ONE;  *)
(* a randomized value is in units of 1/VALUE_ONE, the product of the       *)
(* units of max_deviation and of the draw; a period is in units of         *)
(* 1/SECOND_ONE second.                                                    *)

\* a base value, a randomise knob or a draw of 1.f
RAND_ONE == 4
\* a randomized value of 1.f
VALUE_ONE == 2 * RAND_ONE * RAND_ONE
\* a period of one second
SECOND_ONE == 640

\* const int NUM_SYNC_DIVS = 8
NUM_SYNC_DIVS == 8
\* const float SYNC_DIVISIONS[], in units of 1/32
SYNC_DIVISIONS == <<1, 2, 4, 8, 16, 32, 64, 128>>
\* the unit of SYNC_DIVISIONS
DIVISION_ONE == 32

\* params[BPM_PARAM].getValue(): configParam(BPM_PARAM, 30.f, 300.f, 120.f)
Bpms == {30, 60, 120, 300}
\* rack::random::uniform(), a value of [0, 1)
UniformDraws == 0..(RAND_ONE - 1)

\* rack::math::clamp
clamp(x, lo, hi) == Max(Min(x, hi), lo)

\* a randomized value that is not clamped
getRandomizedValueUnclamped(base, r, u) ==
    base * 2 * RAND_ONE + (u * 2 - RAND_ONE) * r

\* Granular::getClampedRandomizedValue, with the draw u of uniform()
getClampedRandomizedValue(base, r, u) ==
    LET max_deviation == r
        random_offset == (u * 2 - RAND_ONE) * max_deviation
    IN  clamp(base * 2 * RAND_ONE + random_offset, 0, VALUE_ONE)

\* a division index that follows the density instead of inverting it
SyncIndexNotInverted(density) ==
    clamp((density * (NUM_SYNC_DIVS - 1) * 2 + VALUE_ONE) \div (2 * VALUE_ONE),
          0, NUM_SYNC_DIVS - 1)

\* the index into SYNC_DIVISIONS: lines 398-401; (int)(x + 0.5f) truncates
SyncIndex(density) ==
    LET inverted_density == VALUE_ONE - density
        index == (inverted_density * (NUM_SYNC_DIVS - 1) * 2 + VALUE_ONE)
                     \div (2 * VALUE_ONE)
    IN  clamp(index, 0, NUM_SYNC_DIVS - 1)

\* float period of lines 403-405; the limit 0.0001f lies below one unit
SyncPeriod(density, bpm) ==
    LET divMultiplier == SYNC_DIVISIONS[SyncIndex(density) + 1]
        period == (60 * SECOND_ONE * divMultiplier) \div (bpm * DIVISION_ONE)
    IN  IF period * 10000 < SECOND_ONE THEN SECOND_ONE \div 10000 ELSE period

\* density_hz_final = 1.f / period, kept as a fraction: line 406
DensityHz(period) == [num |-> SECOND_ONE, den |-> period]

\* grainSpawnTimer = 1.f / density_hz_final: line 465
SpawnPeriod(hz) == (hz.den * SECOND_ONE) \div hz.num

(* SpecDensity: the density of one call in sync mode, for every base       *)
(* value, randomise knob, draw and BPM of the sets above.                  *)

NoDensity(base, r, bpm) ==
    [stage |-> "knobs", base |-> base, r |-> r, bpm |-> bpm,
     rand |-> 0, index |-> 0, period |-> 0]

InitDensity ==
    /\ \E base \in 0..RAND_ONE : \E r \in 0..RAND_ONE : \E bpm \in Bpms :
         probe = NoDensity(base, r, bpm)
    /\ audioBuffer = <<>>
    /\ activeBufferLen = 0
    /\ fileSampleRate = DEFAULT_RATE
    /\ bufferIsRawVoltage = FALSE
    /\ grains = <<>>
    /\ grainSpawnTimer = 0
    /\ isLoading = FALSE
    /\ isRecording = FALSE
    /\ recHead = 0
    /\ wasRecordingPrev = FALSE
    /\ bufferWrapped = FALSE
    /\ recTrigger = FALSE
    /\ liveRecParam = 0
    /\ sineOutput = ZeroVolts
    /\ loaderPc = "idle"
    /\ newBuffer = NoFile
    /\ last = "init"
    /\ tick = NoTick
    /\ cap = NoCapture
    /\ forcedOff = "no"

\* density_rand_0_to_1 = getClampedRandomizedValue(...): line 393
CallRandomized ==
    /\ probe.stage = "knobs"
    /\ \E u \in UniformDraws :
         probe' = [probe EXCEPT !.stage = "randomized",
                                !.rand = getClampedRandomizedValue(probe.base, probe.r, u)]
    /\ UNCHANGED <<engineVars, liveRecParam, sineOutput, loaderPc, newBuffer,
                   last, tick, cap, forcedOff>>

\* the isSynced branch and the timer reset: lines 395-406 and 465
CallSyncPeriod ==
    /\ probe.stage = "randomized"
    /\ probe' = [probe EXCEPT
           !.stage = "period",
           !.index = SyncIndex(probe.rand),
           !.period = SpawnPeriod(DensityHz(SyncPeriod(probe.rand, probe.bpm)))]
    /\ UNCHANGED <<engineVars, liveRecParam, sineOutput, loaderPc, newBuffer,
                   last, tick, cap, forcedOff>>

NextDensity ==
    \/ CallRandomized
    \/ CallSyncPeriod

SpecDensity == InitDensity /\ [][NextDensity]_vars

-----------------------------------------------------------------------------
(* SpecPlayback: the engine thread alone, after a file of PlaybackFiles    *)
(* has been loaded, with the speed, size, shape and compression controls   *)
(* moving between the calls.  SpecLoop: the same, with the loop and        *)
(* position controls moving instead.                                       *)

PlaybackKnobs ==
    [startVal : {0}, endVal : {KNOB_ONE}, period : {1, 2},
     position : {0}, speed : {1, 2}, grainSize : {1, 2},
     envShape : {0, 1}, compression : {0, 1}]

LoopKnobs ==
    [startVal : {0, 1, 2}, endVal : {0, 1, 2}, period : {1, 2},
     position : {0, 1, 2}, speed : {POS_ONE}, grainSize : {2},
     envShape : {0}, compression : {0}]

\* the module after onPathDrop has loaded a file of files and returned
InitLoaded(files) ==
    /\ \E f \in files :
         /\ audioBuffer = f.samples
         /\ activeBufferLen = Len(f.samples)
         /\ fileSampleRate = f.rate
    /\ bufferIsRawVoltage = FALSE
    /\ grains = <<>>
    /\ grainSpawnTimer = 0
    /\ isLoading = FALSE
    /\ isRecording = FALSE
    /\ recHead = 0
    /\ wasRecordingPrev = FALSE
    /\ bufferWrapped = FALSE
    /\ recTrigger = FALSE
    /\ liveRecParam = 0
    /\ sineOutput = ZeroVolts
    /\ loaderPc = "idle"
    /\ newBuffer = NoFile
    /\ last = "dropEnd"
    /\ tick = NoTick
    /\ cap = NoCapture
    /\ forcedOff = "no"
    /\ probe = NoProbe

InitPlayback == InitLoaded(PlaybackFiles)

processPlayback ==
    \E sampleRate \in HostRates : \E k \in PlaybackKnobs :
        ProcessWith(sampleRate, 0, k, 0)

NextPlayback == processPlayback

SpecPlayback == InitPlayback /\ [][NextPlayback]_vars

processLoop ==
    \E sampleRate \in HostRates : \E k \in LoopKnobs :
        ProcessWith(sampleRate, 0, k, 0)

NextLoop == processLoop

SpecLoop == InitPlayback /\ [][NextLoop]_vars

(* SpecLife: the same, with the grain size control moving over sizes of    *)
(* one to four samples.                                                    *)

LifeFiles == { [samples |-> <<1, 2>>, rate |-> 1] }

LifeKnobs ==
    [startVal : {0}, endVal : {KNOB_ONE}, period : {1, 2, 3},
     position : {0, KNOB_ONE}, speed : {POS_ONE}, grainSize : {1, 2, 3, 4},
     envShape : {0}, compression : {0}]

InitLife == InitLoaded(LifeFiles)

processLife ==
    \E sampleRate \in HostRates : \E k \in LifeKnobs :
        ProcessWith(sampleRate, 0, k, 0)

NextLife == processLife

SpecLife == InitLife /\ [][NextLife]_vars

-----------------------------------------------------------------------------
(* SpecAdvance: Grain::advance called MaxAdvance times on one grain with a *)
(* fixed loop region, loopEnd > loopStart, from every position in          *)
(* -MaxProbePos..MaxProbePos and with every speed of AdvanceSpeeds.        *)

AdvanceGrain(pos, speed) ==
    [bufferPos |-> pos, life |-> 0, lifeIncrement |-> 0,
     playbackSpeedRatio |-> speed, finalEnvShape |-> 0]

NoAdvance(loopStart, loopEnd) ==
    [calls |-> 0, loopStart |-> loopStart, loopEnd |-> loopEnd,
     wrappedBefore |-> FALSE, wrappedNow |-> FALSE]

InitAdvance ==
    /\ \E pos \in (-MaxProbePos)..MaxProbePos : \E speed \in AdvanceSpeeds :
         grains = <<AdvanceGrain(pos, speed)>>
    /\ \E loopStart \in AdvanceLoopStarts : \E loopEnd \in AdvanceLoopEnds :
         /\ loopEnd > loopStart
         /\ probe = NoAdvance(loopStart, loopEnd)
    /\ audioBuffer = <<>>
    /\ activeBufferLen = 0
    /\ fileSampleRate = DEFAULT_RATE
    /\ bufferIsRawVoltage = FALSE
    /\ grainSpawnTimer = 0
    /\ isLoading = FALSE
    /\ isRecording = FALSE
    /\ recHead = 0
    /\ wasRecordingPrev = FALSE
    /\ bufferWrapped = FALSE
    /\ recTrigger = FALSE
    /\ liveRecParam = 0
    /\ sineOutput = ZeroVolts
    /\ loaderPc = "idle"
    /\ newBuffer = NoFile
    /\ last = "init"
    /\ tick = NoTick
    /\ cap = NoCapture
    /\ forcedOff = "no"

\* g.advance(loopStartSamp, loopEndSamp) as at line 500
CallAdvance ==
    /\ probe.calls < MaxAdvance
    /\ LET g == grains[1]
       IN  /\ grains' = <<advance(g, probe.loopStart, probe.loopEnd)>>
           /\ probe' = [probe EXCEPT
                  !.calls = @ + 1,
                  !.wrappedBefore = probe.wrappedBefore \/ probe.wrappedNow,
                  !.wrappedNow = g.bufferPos + g.playbackSpeedRatio >= probe.loopEnd]
    /\ UNCHANGED <<audioBuffer, fileSampleRate, activeBufferLen, bufferIsRawVoltage,
                   grainSpawnTimer, isLoading, isRecording, recHead, wasRecordingPrev,
                   bufferWrapped, recTrigger, liveRecParam, sineOutput, loaderPc,
                   newBuffer, last, tick, cap, forcedOff>>

NextAdvance == CallAdvance

SpecAdvance == InitAdvance /\ [][NextAdvance]_vars

-----------------------------------------------------------------------------
(* The claims.                                                             *)

\* C1: a process call that sees isRecording, isLoading, an empty audioBuffer
\* or activeBufferLen = 0 at its branch point writes exactly 0 to the output.
C1_SilentTickOutputsZero ==
    (last = "process"
       /\ (tick.sawRecording \/ tick.sawLoading \/ tick.sawEmpty \/ tick.sawLenZero))
    => sineOutput = ZeroVolts

\* C1 witness: a call is silenced by isLoading alone, with content loaded
\* and grains in the pool.
C1_Witness ==
    /\ last = "process"
    /\ tick.sawLoading /\ ~tick.sawRecording /\ ~tick.sawEmpty /\ ~tick.sawLenZero
    /\ grains # <<>>
    /\ sineOutput = ZeroVolts

\* C2: activeBufferLen <= audioBuffer.size() in every reachable state.
C2_ActiveLenWithinBuffer ==
    activeBufferLen <= Len(audioBuffer)

\* C3: while onPathDrop is between raising isLoading and the end of
\* setBuffer, every process call takes the silence branch and handles no
\* record start or stop.
C3_LoadSilencesEveryTick ==
    (last = "process" /\ loaderPc = "decoding")
    => (tick.branch = "silence" /\ ~tick.edge /\ ~tick.stop)

\* C4: getSample reads nothing and returns 0 for an empty buffer or an
\* active length of 0; otherwise both indices it reads lie in
\* 0..activeLen-1, whatever the grain's position.
C4_GetSampleIndicesInRange ==
    probe.called =>
        IF audioBuffer = <<>> \/ activeBufferLen = 0
        THEN ~probe.reads /\ probe.value = 0
        ELSE /\ probe.reads
             /\ 0 <= probe.index1 /\ probe.index1 <= activeBufferLen - 1
             /\ 0 <= probe.index2 /\ probe.index2 <= activeBufferLen - 1

\* C4 witness: a call with a position below -1 sample, where index1 + 1 is
\* negative, on a buffer of at least two active samples.
C4_Witness ==
    /\ probe.called /\ probe.reads
    /\ grains[1].bufferPos < -POS_ONE
    /\ activeBufferLen >= 2

\* C5: right after setBuffer the buffer is the new one, activeBufferLen its
\* size, fileSampleRate its rate, the content is not raw voltage, the pool
\* is empty and isLoading is false.
C5_SetBufferPostcondition ==
    last = "setBuffer" =>
        /\ audioBuffer = newBuffer.samples
        /\ activeBufferLen = Len(newBuffer.samples)
        /\ fileSampleRate = newBuffer.rate
        /\ ~bufferIsRawVoltage
        /\ grains = <<>>
        /\ ~isLoading

\* C5 witness: setBuffer has run in the middle of a capture whose buffer
\* differs from the new one in size and rate.
C5_Witness ==
    /\ last = "setBuffer"
    /\ wasRecordingPrev /\ liveRecParam = 1 /\ recHead > Len(audioBuffer)
    /\ fileSampleRate # DEFAULT_RATE

\* C6: after a file drop that began during capture has returned, the record
\* control is off, and until the control is moved again every process call
\* leaves isRecording false and does not take the capture branch.
C6_DropForcesRecordingOff ==
    forcedOff = "yes" =>
        /\ liveRecParam = 0
        /\ (last = "process" => ~isRecording /\ tick.branch # "capture")

\* C6 witness: the first process call after such a drop, which handles the
\* record stop.
C6_Witness ==
    /\ forcedOff = "yes"
    /\ last = "process" /\ tick.stop

\* C7: in the call that sees the rising edge of the record control, before
\* the input sample is written, the buffer has the capture size if it was
\* undersized and its old size otherwise, holds only zeros, is marked raw
\* voltage, and recHead is 0 and bufferWrapped false.
C7_RecordStartState ==
    (last = "process" /\ tick.edge) =>
        LET b == tick.started.audioBuffer
        IN  /\ Len(b) = IF tick.preSize < RESIZE_BELOW
                        THEN tick.sampleRate * REC_SECONDS
                        ELSE tick.preSize
            /\ \A i \in 1..Len(b) : b[i] = 0
            /\ tick.started.bufferIsRawVoltage
            /\ tick.started.recHead = 0
            /\ ~tick.started.bufferWrapped

\* C7 witness: a record start on a buffer that is large enough and keeps
\* its size.
C7_Witness ==
    /\ last = "process" /\ tick.edge
    /\ tick.preSize >= RESIZE_BELOW
    /\ Len(audioBuffer) = tick.preSize

\* C8: the call that sees the record control go off leaves activeBufferLen
\* at the buffer size if the capture wrapped, else at recHead if recHead
\* exceeds the short-recording limit, else at the floor; a capture of N
\* samples, N above the limit and below the buffer size, leaves N.
C8_RecordStopLength ==
    (last = "process" /\ tick.stop) =>
        /\ activeBufferLen = IF bufferWrapped THEN Len(audioBuffer)
                             ELSE IF recHead > SHORT_REC THEN recHead
                             ELSE FLOOR_LEN
        /\ (cap.valid /\ SHORT_REC < cap.count /\ cap.count < Len(audioBuffer))
           => activeBufferLen = cap.count

\* C8 witness: a capture of more samples than the limit and fewer than the
\* buffer holds has just been stopped.
C8_Witness ==
    /\ last = "process" /\ tick.stop
    /\ cap.valid /\ SHORT_REC < cap.count /\ cap.count < Len(audioBuffer)
    /\ ~bufferWrapped

\* C9: after K capturing ticks since a record start, on a buffer of size S
\* that was not replaced, recHead = K mod S, bufferWrapped holds exactly
\* when K >= S, and for K < S the buffer holds the K inputs in order
\* followed by zeros; after every call isRecording equals the record
\* control.
C9_RingWrite ==
    /\ cap.valid =>
         LET S == Len(audioBuffer)
             K == cap.count
         IN  /\ S > 0
             /\ recHead = K % S
             /\ bufferWrapped <=> K >= S
             /\ K < S => /\ Len(cap.inputs) = K
                         /\ \A i \in 1..S :
                              audioBuffer[i] = IF i <= K THEN cap.inputs[i] ELSE 0
    /\ last = "process" => (isRecording <=> liveRecParam = 1)

\* C9 witness: the capture has gone round the buffer and on, and is still
\* running.
C9_Witness ==
    /\ cap.valid /\ cap.count > Len(audioBuffer)
    /\ recHead > 0
    /\ isRecording /\ last = "process"

\* C10: the pool never holds more than MAX_GRAINS grains.
C10_PoolBounded ==
    Len(grains) <= MAX_GRAINS

\* C10 witness: the spawn timer expired on a full pool and no grain was
\* spawned.
C10_Witness ==
    /\ last = "process" /\ tick.expired /\ ~tick.spawned
    /\ Len(grains) = MAX_GRAINS

\* C11: when the spawn timer expires on a playback tick whose pool already
\* holds MAX_GRAINS grains, no grain is created and the timer is still set
\* to the current spawn period; a skipped spawn is not made up for: while
\* the timer has not expired again no grain is created, capacity or not.
C11_PoolExhaustionNoBacklog ==
    [][(last' = "process" /\ tick'.branch = "playback") =>
          /\ (grainSpawnTimer - 1 <= 0 /\ Len(grains) >= MAX_GRAINS) =>
                 /\ tick'.contributors = Len(grains)
                 /\ grainSpawnTimer' = tick'.period
          /\ (tick.skipped /\ grainSpawnTimer - 1 > 0) =>
                 /\ tick'.contributors = Len(grains)
                 /\ grainSpawnTimer' = grainSpawnTimer - 1]_vars

\* C11 witness: a spawn was skipped on a full pool, a grain has died since,
\* and a playback tick with room in the pool and the timer still running
\* has spawned nothing.
C11_Witness ==
    /\ last = "process" /\ tick.branch = "playback"
    /\ tick.skipped /\ ~tick.expired /\ ~tick.spawned
    /\ tick.contributors < MAX_GRAINS

\* a grain whose life stays below 1 over one more advance
StaysBelowOne(g) == g.life + g.lifeIncrement < LIFE_ONE

\* C12: over a playback tick the life of every grain that stays in the pool
\* has grown by its lifeIncrement and never decreased; the grains left in
\* the pool are exactly those whose life is still below 1 after the tick's
\* advance, in their order, the grain spawned by the tick included; no grain
\* with life >= 1 is in the pool after any step.
C12_LifeMonotoneReapAtOne ==
    [][/\ \A i \in 1..Len(grains') : grains'[i].life < LIFE_ONE
       /\ (last' = "process" /\ tick'.branch = "playback") =>
             LET kept == SelectSeq(grains, StaysBelowOne)
                 fresh == tick'.spawned /\ tick'.freshLife < LIFE_ONE
             IN  /\ Len(grains') = Len(kept) + (IF fresh THEN 1 ELSE 0)
                 /\ \A i \in 1..Len(kept) :
                       /\ grains'[i].life = kept[i].life + kept[i].lifeIncrement
                       /\ grains'[i].life >= kept[i].life
                       /\ grains'[i].lifeIncrement = kept[i].lifeIncrement
                 /\ fresh => grains'[Len(grains')].life = tick'.freshLife]_vars

\* C12 witness: a playback tick in which an old grain reached life 1 and
\* was removed while the grain just spawned stays in the pool.
C12_Witness ==
    /\ last = "process" /\ tick.branch = "playback"
    /\ tick.spawned /\ tick.freshLife < LIFE_ONE
    /\ tick.contributors = Len(grains) + 1
    /\ Len(grains) >= 1

C14_LoopAtLeastOneSample ==
    (last = "process" /\ tick.branch = "playback") =>
        /\ tick.loopStartSamp <= tick.loopEndSamp
        /\ tick.loopEndSamp - tick.loopStartSamp >= POS_ONE

\* C15: on a playback tick in which n >= 1 grains add sample * envelope to
\* the sum, the value handed to the output shaper is the sum divided by
\* sqrt(n); when no grain contributes it is exactly 0.
C15_MixDividesByContributors ==
    (last = "process" /\ tick.branch = "playback") =>
        IF tick.contributors = 0 THEN sineOutput = ZeroVolts
        ELSE sineOutput.sum # 0 => sineOutput.div = tick.contributors

\* C16: in sync mode the spawn period is (60 / bpm) times the entry of
\* SYNC_DIVISIONS at the index round((1 - d) * 7) clamped to 0..7, for the
\* density d: d = 1 takes index 0 (1/32), d = 0 takes index 7 (4 bars), a
\* larger d never gives a longer period, and 120 BPM with the 1/4 entry
\* gives 0.125 s.
C16_SyncPeriodMapping ==
    probe.stage = "period" =>
        LET d == probe.rand
            x2 == 2 * (VALUE_ONE - d) * 7
        IN  /\ \E i \in 0..7 :
                  /\ 2 * VALUE_ONE * i - VALUE_ONE <= x2
                  /\ x2 < 2 * VALUE_ONE * i + VALUE_ONE
                  /\ probe.index = i
                  /\ probe.period * probe.bpm * 32
                         = 60 * SECOND_ONE * <<1, 2, 4, 8, 16, 32, 64, 128>>[i + 1]
            /\ d = VALUE_ONE => probe.index = 0
            /\ d = 0 => probe.index = 7
            /\ \A d2 \in d..VALUE_ONE :
                  SpawnPeriod(DensityHz(SyncPeriod(d2, probe.bpm))) <= probe.period
            /\ (probe.bpm = 120 /\ probe.index = 3) => 8 * probe.period = SECOND_ONE

\* C16 witness: 120 BPM and a density halfway between two divisions, which
\* rounds to the slower one; the period is 0.25 s.
C16_Witness ==
    /\ probe.stage = "period" /\ probe.bpm = 120
    /\ 2 * probe.rand = VALUE_ONE /\ probe.index = 4
    /\ 4 * probe.period = SECOND_ONE

\* C17: getClampedRandomizedValue(base, r) lies in
\* [max(0, base - r/2), min(1, base + r/2)] for every draw, and is exactly
\* base when r = 0.
C17_RandomizedValueInRange ==
    probe.stage = "randomized" =>
        LET base == probe.base * 2 * RAND_ONE
            half == probe.r * RAND_ONE
        IN  /\ Max(0, base - half) <= probe.rand
            /\ probe.rand <= Min(VALUE_ONE, base + half)
            /\ probe.r = 0 => probe.rand = base

\* C17 witness: a draw that takes the value below 0, where it is clamped.
C17_Witness ==
    /\ probe.stage = "randomized"
    /\ probe.base > 0 /\ 2 * probe.base < probe.r
    /\ probe.rand = 0

\* the contribution of a grain of the pool to the sum of a tick
OwnContribution(g) ==
    getSample(g, audioBuffer, activeBufferLen, 0) * getEnvelope(g, g.finalEnvShape)

\* the contributions of the first n grains of the pool
RECURSIVE OwnContributions(_)
OwnContributions(n) ==
    IF n = 0 THEN 0 ELSE OwnContribution(grains[n]) + OwnContributions(n - 1)

\* C18: over a playback tick every grain that stays in the pool keeps its
\* finalEnvShape, lifeIncrement and playbackSpeedRatio, whatever the
\* controls read by the tick; on a tick that spawns nothing the sum is the
\* sum of each grain's sample times its envelope at its own finalEnvShape.
C18_GrainFieldsFrozen ==
    [][(last' = "process" /\ tick'.branch = "playback") =>
          LET kept == SelectSeq(grains, StaysBelowOne)
          IN  /\ Len(grains') >= Len(kept)
              /\ \A i \in 1..Len(kept) :
                    /\ grains'[i].finalEnvShape = kept[i].finalEnvShape
                    /\ grains'[i].lifeIncrement = kept[i].lifeIncrement
                    /\ grains'[i].playbackSpeedRatio = kept[i].playbackSpeedRatio
              /\ ~tick'.spawned =>
                    sineOutput'.sum = OwnContributions(Len(grains))]_vars

\* C18 witness: after a tick that spawned nothing the pool holds two grains
\* of different shape and speed, one of them a triangle grain that has just
\* contributed at a quarter of its life.
C18_Witness ==
    /\ last = "process" /\ tick.branch = "playback" /\ ~tick.spawned
    /\ Len(grains) = 2
    /\ grains[1].finalEnvShape # grains[2].finalEnvShape
    /\ grains[1].playbackSpeedRatio # grains[2].playbackSpeedRatio
    /\ \E i \in 1..2 : /\ grains[i].finalEnvShape = 1
                       /\ grains[i].lifeIncrement = 1
                       /\ grains[i].life = 2

\* C19: a process call that takes the capture branch or the silence branch
\* leaves the grain pool, with every grain's fields, and grainSpawnTimer as
\* they were.
C19_CaptureAndSilenceKeepPool ==
    [][(last' = "process" /\ tick'.branch \in {"capture", "silence"}) =>
          /\ grains' = grains
          /\ grainSpawnTimer' = grainSpawnTimer]_vars

\* C19 witness: a capturing tick with grains in the pool and the spawn
\* timer running.
C19_Witness ==
    /\ last = "process" /\ tick.branch = "capture"
    /\ grains # <<>> /\ grainSpawnTimer > 0

\* C20: a playback tick first decreases grainSpawnTimer by the tick
\* duration; it spawns at most one grain, and none unless the decreased
\* timer is <= 0; when the decreased timer is <= 0 the tick leaves the timer
\* at exactly the current spawn period, and otherwise at the decreased
\* value.
C20_SpawnTimer ==
    [][(last' = "process" /\ tick'.branch = "playback") =>
          LET decreased == grainSpawnTimer - 1
              created == tick'.contributors - Len(grains)
          IN  /\ created \in {0, 1}
              /\ created = 1 => decreased <= 0
              /\ grainSpawnTimer' = IF decreased <= 0 THEN tick'.period
                                    ELSE decreased]_vars

\* C20 witness: the decreased timer was below zero, one grain was spawned
\* and the timer holds the period.
C20_Witness ==
    /\ last = "process" /\ tick.branch = "playback"
    /\ tick.overshoot > 0 /\ tick.spawned
    /\ tick.period = 2 /\ grainSpawnTimer = 2

\* C21: every grain is created with life 0 and with bufferPos inside the
\* closed loop region [loopStartSamp, loopEndSamp] of its tick.
C21_GrainBornInsideLoop ==
    (last = "process" /\ tick.branch = "playback" /\ tick.spawned) =>
        /\ tick.bornLife = 0
        /\ tick.loopStartSamp <= tick.bornPos
        /\ tick.bornPos <= tick.loopEndSamp

\* C22: a grain spawned with lifeIncrement = 1/N is out of the pool after
\* at most N playback ticks: a grain that is still in the pool has been
\* through fewer than N of them.
C22_GrainGoneAfterItsSize ==
    (last = "process" /\ tick.trackedAlive) => tick.trackedAge < tick.trackedSize

\* C23: on every playback tick 0 <= loopStartSamp and
\* loopEndSamp <= activeBufferLen - 1, and no grain is left at a negative
\* position by advance.
C23_LoopInsideBuffer ==
    (last = "process" /\ tick.branch = "playback") =>
        /\ 0 <= tick.loopStartSamp
        /\ tick.loopEndSamp <= (activeBufferLen - 1) * POS_ONE
        /\ \A i \in 1..Len(grains) : grains[i].bufferPos >= 0

\* C24: after a load has completed, every process call up to the next
\* record start leaves activeBufferLen at the size of the loaded buffer.
C24_LoadedLengthKept ==
    (last = "process" /\ cap.loaded) => activeBufferLen = cap.loadedLen

\* C25: from the moment onPathDrop has raised isLoading until its load
\* ends, in setBuffer or in a failed decode, isLoading is true.
C25_LoadingHeldDuringLoad ==
    loaderPc = "decoding" => isLoading

====
